---- MODULE Spec2Model ----
(***************************************************************************)
(* A model of the Freelo REST client of freelo-mcp                         *)
(* (src/src/utils/freeloApi.ts): construction of FreeloApiClient, the      *)
(* private request executor, and the accessors built on it.                *)
(*                                                                         *)
(* Conventions.  A JavaScript string that the code inspects byte by byte   *)
(* (the credentials) is a sequence of one-character strings; any other     *)
(* string is a sequence of pieces, and a template literal is the           *)
(* concatenation of its pieces.  An optional value is a set with at most   *)
(* one element: {} is undefined, {v} is v.  An async function is cut at    *)
(* its awaits: one action per stretch of code between two suspensions.     *)
(***************************************************************************)
EXTENDS Naturals, Sequences, FiniteSets, TLC

(* ------------------------------ bounds -------------------------------- *)

MaxCredLen == 2
MaxSubtasks == 2
MaxBodyLen == 2
MaxCalls == 2
MaxNameLen == 3

(* ------------------------------ strings ------------------------------- *)

RECURSIVE SeqsUpTo(_, _)
SeqsUpTo(S, n) ==
  IF n = 0 THEN {<<>>}
  ELSE LET shorter == SeqsUpTo(S, n - 1)
       IN  shorter \cup {Append(s, x) : s \in {t \in shorter : Len(t) = n - 1}, x \in S}

CredChars == {"a", "~"}

\* An argument or an environment variable: undefined, "" or a short string.
CredInputs == {{}} \cup {{s} : s \in SeqsUpTo(CredChars, MaxCredLen)}

\* JavaScript's !v for an optional string: undefined and "" are falsy.
Falsy(v) == v = {} \/ v = {<<>>}

Value(v) == CHOOSE s \in v : TRUE

\* The UTF-8 code of a character (the credentials are ASCII here).
CharCode(c) ==
  CASE c = "a" -> 97
    [] c = "~" -> 126
    [] c = ":" -> 58

\* Buffer.from(str): the bytes of the string.
BufferFrom(str) == [i \in 1..Len(str) |-> CharCode(str[i])]

Base64Alphabet ==
  << "A","B","C","D","E","F","G","H","I","J","K","L","M","N","O","P",
     "Q","R","S","T","U","V","W","X","Y","Z","a","b","c","d","e","f",
     "g","h","i","j","k","l","m","n","o","p","q","r","s","t","u","v",
     "w","x","y","z","0","1","2","3","4","5","6","7","8","9","+","/" >>

\* The four characters that encode the 3-byte group starting at byte i.
Base64Group(bytes, i) ==
  LET n  == Len(bytes)
      b1 == bytes[i]
      b2 == IF i + 1 <= n THEN bytes[i + 1] ELSE 0
      b3 == IF i + 2 <= n THEN bytes[i + 2] ELSE 0
      t  == b1 * 65536 + b2 * 256 + b3
  IN  << Base64Alphabet[(t \div 262144) + 1],
         Base64Alphabet[((t \div 4096) % 64) + 1],
         IF i + 1 <= n THEN Base64Alphabet[((t \div 64) % 64) + 1] ELSE "=",
         IF i + 2 <= n THEN Base64Alphabet[(t % 64) + 1] ELSE "=" >>

RECURSIVE Base64From(_, _)
Base64From(bytes, i) ==
  IF i > Len(bytes) THEN <<>>
  ELSE Base64Group(bytes, i) \o Base64From(bytes, i + 3)

\* buffer.toString('base64')
ToBase64(bytes) == Base64From(bytes, 1)

(* ------------------------------- state -------------------------------- *)

VARIABLES
  client,    \* {} before construction, then {[email, apiKey]}
  ctorArgs,  \* {} or {[email, apiKey]}: the inputs of the latest construction
  ctorError, \* {} or {message}: the error the latest construction threw
  calls,     \* per invocation of an accessor: its position and locals
  wire,      \* the requests handed to fetch, in order
  tool,      \* the execute() of an MCP tool: its input, position and output
  disk       \* the file system: directories made and files written

vars == <<client, ctorArgs, ctorError, calls, wire, tool, disk>>

CallIds == 1..MaxCalls

baseUrl == "https://api.freelo.io/v1"

NoValue == [kind |-> "none"]

IdleCall ==
  [op |-> "none", arg |-> 0, pc |-> "idle", response |-> NoValue, result |-> NoValue]

\* No tool has been called: every field of the record is still empty.
IdleTool ==
  [name |-> "none", pc |-> "idle", arg |-> "", filename |-> {}, saveAs |-> <<>>,
   filePath |-> <<>>, steps |-> <<>>, output |-> NoValue]

EmptyDisk == [dirs |-> {}, files |-> {}]

Init ==
  /\ client = {}
  /\ ctorArgs = {}
  /\ ctorError = {}
  /\ calls = [c \in CallIds |-> IdleCall]
  /\ wire = <<>>
  /\ tool = IdleTool
  /\ disk = EmptyDisk

(* ---------------------------- construction ---------------------------- *)

\* A constructor that rejects only undefined, not "".
ConstructorErrorUndefinedOnly(email, apiKey) ==
  IF email = {}
  THEN {<<"Freelo email is required. Set FREELO_EMAIL environment variable.">>}
  ELSE IF apiKey = {}
  THEN {<<"Freelo API key is required. Set FREELO_API_KEY environment variable.">>}
  ELSE {}

\* The constructor's outcome for the arguments (email, apiKey).
ConstructorError(email, apiKey) ==
  IF Falsy(email)
  THEN {<<"Freelo email is required. Set FREELO_EMAIL environment variable.">>}
  ELSE IF Falsy(apiKey)
  THEN {<<"Freelo API key is required. Set FREELO_API_KEY environment variable.">>}
  ELSE {}

\* new FreeloApiClient(email, apiKey)
FreeloApiClient(inputs) ==
  \E email \in inputs, apiKey \in inputs :
    /\ client = {}
    /\ ctorArgs' = {[email |-> email, apiKey |-> apiKey]}
    /\ ctorError' = ConstructorError(email, apiKey)
    /\ client' = IF ConstructorError(email, apiKey) = {}
                 THEN {[email |-> Value(email), apiKey |-> Value(apiKey)]}
                 ELSE {}
    /\ UNCHANGED <<calls, wire, tool, disk>>

\* createFreeloClient()'s own checks of the two environment variables.
EnvironmentError(email, apiKey) ==
  IF Falsy(email)
  THEN {<<"FREELO_EMAIL environment variable is not set. ",
          "Please configure it in your MCP server settings.">>}
  ELSE IF Falsy(apiKey)
  THEN {<<"FREELO_API_KEY environment variable is not set. ",
          "Please configure it in your MCP server settings.">>}
  ELSE {}

\* createFreeloClient(): email and apiKey are what process.env holds.
createFreeloClient(inputs) ==
  \E email \in inputs, apiKey \in inputs :
    /\ client = {}
    /\ ctorArgs' = {[email |-> email, apiKey |-> apiKey]}
    /\ ctorError' = IF EnvironmentError(email, apiKey) # {}
                    THEN EnvironmentError(email, apiKey)
                    ELSE ConstructorError(email, apiKey)
    /\ client' = IF EnvironmentError(email, apiKey) = {}
                    /\ ConstructorError(email, apiKey) = {}
                 THEN {[email |-> Value(email), apiKey |-> Value(apiKey)]}
                 ELSE {}
    /\ UNCHANGED <<calls, wire, tool, disk>>

(* ------------------------------ the remote ---------------------------- *)

TaskIds == {1, 42}
FileUuids == {"0b5c1f0e-uuid-1", "7d2a9c44-uuid-2"}

\* fetch() rejects: DNS failure, refused connection, timeout.
NetworkFault == [kind |-> "fault", name |-> "TypeError", message |-> <<"fetch failed">>]

HttpResponse(status, statusText, body) ==
  [kind |-> "http", status |-> status, statusText |-> statusText, body |-> body]

\* A body is JSON text of an object, the JSON text null, bytes that are not
\* JSON (raw), or a stream that breaks while it is read (aborted).
JsonBody(value) == [type |-> "json", value |-> value]
NullBody == [type |-> "null"]
RawBody(bytes) == [type |-> "raw", bytes |-> bytes]
AbortedBody == [type |-> "aborted"]

TaskBodies ==
  { JsonBody([id |-> 42, name |-> "X"]),
    JsonBody([id |-> 7, name |-> "Y", description |-> "d", priority_enum |-> "h"]) }

SubtaskRecords == { [id |-> 1, name |-> "A"], [id |-> 2, name |-> "B"] }

Envelope(subtasks) ==
  [total |-> 5, count |-> Len(subtasks), page |-> 1, per_page |-> 2,
   data |-> [subtasks |-> subtasks]]

EnvelopeBodies == { JsonBody(Envelope(s)) : s \in SeqsUpTo(SubtaskRecords, MaxSubtasks) }

BodyBytes == {0, 255}

RawBodies == { RawBody(b) : b \in SeqsUpTo(BodyBytes, MaxBodyLen) }

\* Error objects: each of message and error absent, "" or a text.
ErrorBodies ==
  { JsonBody([statusCode |-> 0]),
    JsonBody([message |-> ""]),
    JsonBody([message |-> "Task not found"]),
    JsonBody([error |-> ""]),
    JsonBody([error |-> "not_found"]),
    JsonBody([error |-> "", message |-> ""]),
    JsonBody([error |-> "", message |-> "Task not found"]),
    JsonBody([error |-> "not_found", message |-> ""]),
    JsonBody([error |-> "not_found", message |-> "Task not found"]) }

ErrorStatuses == { <<404, "Not Found">>, <<500, "Internal Server Error">> }

Responses ==
  {NetworkFault}
  \cup { HttpResponse(200, "OK", b) :
           b \in TaskBodies \cup EnvelopeBodies \cup RawBodies \cup {NullBody, AbortedBody} }
  \cup { HttpResponse(st[1], st[2], b) :
           st \in ErrorStatuses,
           b \in ErrorBodies \cup {NullBody, AbortedBody, RawBody(<<>>), RawBody(<<0>>)} }

\* response.ok
Ok(response) == response.status \in 200..299

\* What the remote can answer to an accessor's request: a file is served as
\* bytes, never as JSON text.
Serves(op, response) ==
  (op = "downloadFile" /\ response.kind = "http" /\ Ok(response))
    => response.body.type \in {"raw", "aborted"}

(* ------------------------------ the executor -------------------------- *)

\* Credentials encoded in the wrong order: apiKey:email.
CredentialsSwapped(cl) == ToBase64(BufferFrom(cl.apiKey \o <<":">> \o cl.email))

\* Buffer.from(`${this.email}:${this.apiKey}`).toString('base64')
Credentials(cl) == ToBase64(BufferFrom(cl.email \o <<":">> \o cl.apiKey))

NoHeaders == [h \in {} |-> <<>>]

\* request()'s default for its options parameter: {}.
NoOptions == [method |-> {}, headers |-> {}]

\* { ...a, ...b }: b's entries are written over a's.
Spread(a, b) ==
  [h \in DOMAIN a \cup DOMAIN b |-> IF h \in DOMAIN b THEN b[h] ELSE a[h]]

\* The headers object request() builds.
RequestHeaders(cl, options) ==
  Spread([h \in {"Authorization", "User-Agent", "Content-Type"} |->
            CASE h = "Authorization" -> <<"Basic ">> \o Credentials(cl)
              [] h = "User-Agent" -> <<"freelo-mcp (">> \o cl.email \o <<")">>
              [] h = "Content-Type" -> <<"application/json">>],
         IF options.headers = {} THEN NoHeaders ELSE Value(options.headers))

\* The headers object downloadFile() builds.
DownloadHeaders(cl) ==
  [h \in {"Authorization", "User-Agent"} |->
     CASE h = "Authorization" -> <<"Basic ">> \o Credentials(cl)
       [] h = "User-Agent" -> <<"freelo-mcp (">> \o cl.email \o <<")">>]

\* fetch(url, init): the request as it goes out; the method defaults to GET.
Fetch(c, url, method, headers) ==
  [call |-> c, url |-> url,
   method |-> IF method = {} THEN "GET" ELSE Value(method),
   headers |-> headers]

Returned(value) == [kind |-> "value", value |-> value]
ReturnedNull == [kind |-> "null"]
Thrown(name, message) == [kind |-> "error", name |-> name, message |-> message]

\* o.f for an object o: undefined when o has no field f.
Field(o, f) == IF f \in DOMAIN o THEN {o[f]} ELSE {}

Truthy(v) == v # {} /\ v # {""}

\* An executor that prefers the error field to the message field.
ErrorMessageErrorFirst(response) ==
  LET statusLine ==
        <<"API request failed: ", ToString(response.status), " ", response.statusText>>
      body == response.body
  IN  IF body.type = "json"
      THEN IF Truthy(Field(body.value, "error")) THEN <<body.value.error>>
           ELSE IF Truthy(Field(body.value, "message")) THEN <<body.value.message>>
           ELSE statusLine
      ELSE statusLine

\* The errorMessage request() ends with for a response that is not ok.
ErrorMessage(response) ==
  LET statusLine ==
        <<"API request failed: ", ToString(response.status), " ", response.statusText>>
      body == response.body
  IN  IF body.type = "json"
      THEN IF Truthy(Field(body.value, "message")) THEN <<body.value.message>>
           ELSE IF Truthy(Field(body.value, "error")) THEN <<body.value.error>>
           ELSE statusLine
      ELSE statusLine   \* json() threw, or null.message threw: both swallowed

\* A parser that keeps only the fields it knows: description is dropped.
JsonStripping(body) ==
  CASE body.type = "json" ->
         [kind |-> "value",
          value |-> [f \in DOMAIN body.value \ {"description"} |-> body.value[f]]]
    [] body.type = "null" -> [kind |-> "null"]
    [] body.type = "raw" ->
         [kind |-> "error", name |-> "SyntaxError",
          message |-> <<"Unexpected end of JSON input">>]
    [] body.type = "aborted" ->
         [kind |-> "error", name |-> "TypeError", message |-> <<"terminated">>]

\* response.json()
Json(body) ==
  CASE body.type = "json" -> Returned(body.value)
    [] body.type = "null" -> ReturnedNull
    [] body.type = "raw" -> Thrown("SyntaxError", <<"Unexpected end of JSON input">>)
    [] body.type = "aborted" -> Thrown("TypeError", <<"terminated">>)

\* request()'s catch block: every Error is re-thrown under the prefix.
Wrap(error) == Thrown("Error", <<"Freelo API error: ">> \o error.message)

\* request() from the settled fetch to its end.
RequestOutcome(response) ==
  IF response.kind = "fault" THEN Wrap(response)
  ELSE IF ~Ok(response) THEN Wrap(Thrown("Error", ErrorMessage(response)))
  ELSE IF Json(response.body).kind = "error" THEN Wrap(Json(response.body))
  ELSE Json(response.body)

\* An accessor that hands the collection back newest first.
SubtasksReversed(outcome) ==
  IF outcome.kind = "error" THEN outcome
  ELSE IF outcome.kind = "null"
  THEN Thrown("TypeError", <<"Cannot read properties of null (reading 'data')">>)
  ELSE IF "data" \notin DOMAIN outcome.value
  THEN Thrown("TypeError", <<"Cannot read properties of undefined (reading 'subtasks')">>)
  ELSE LET s == outcome.value.data.subtasks
       IN  Returned([i \in 1..Len(s) |-> s[Len(s) + 1 - i]])

\* listTaskSubtasks() after request(): response.data.subtasks
Subtasks(outcome) ==
  IF outcome.kind = "error" THEN outcome
  ELSE IF outcome.kind = "null"
  THEN Thrown("TypeError", <<"Cannot read properties of null (reading 'data')">>)
  ELSE IF "data" \notin DOMAIN outcome.value
  THEN Thrown("TypeError", <<"Cannot read properties of undefined (reading 'subtasks')">>)
  ELSE Returned(outcome.value.data.subtasks)

\* A download that reads the body as text: a byte that is not valid UTF-8
\* comes back as U+FFFD.
DownloadOutcomeAsText(response) ==
  IF response.kind = "fault" THEN Thrown(response.name, response.message)
  ELSE IF ~Ok(response)
  THEN Thrown("Error", <<"Failed to download file: ", ToString(response.status), " ",
                         response.statusText>>)
  ELSE IF response.body.type = "aborted" THEN Thrown("TypeError", <<"terminated">>)
  ELSE Returned([i \in 1..Len(response.body.bytes) |->
                   IF response.body.bytes[i] > 127 THEN 65533
                   ELSE response.body.bytes[i]])

\* downloadFile() from the settled fetch to its end.
DownloadOutcome(response) ==
  IF response.kind = "fault" THEN Thrown(response.name, response.message)
  ELSE IF ~Ok(response)
  THEN Thrown("Error", <<"Failed to download file: ", ToString(response.status), " ",
                         response.statusText>>)
  ELSE IF response.body.type = "aborted" THEN Thrown("TypeError", <<"terminated">>)
  ELSE Returned(response.body.bytes)

(* ------------------------------ accessors ----------------------------- *)

\* Invocations are numbered in the order they are made.
CanInvoke(c) ==
  /\ client # {}
  /\ calls[c].pc = "idle"
  /\ \A d \in CallIds : d < c => calls[d].pc # "idle"

\* request(endpoint, options) up to its await of fetch.
request(c, op, arg, endpoint, options) ==
  /\ wire' = Append(wire, Fetch(c, <<baseUrl>> \o endpoint, options.method,
                                RequestHeaders(Value(client), options)))
  /\ calls' = [calls EXCEPT ![c] = [@ EXCEPT !.op = op, !.arg = arg, !.pc = "fetch"]]
  /\ UNCHANGED <<client, ctorArgs, ctorError, tool, disk>>

getTask(c) ==
  \E taskId \in TaskIds :
    /\ CanInvoke(c)
    /\ request(c, "getTask", ToString(taskId), <<"/task/", ToString(taskId)>>, NoOptions)

listTaskSubtasks(c) ==
  \E taskId \in TaskIds :
    /\ CanInvoke(c)
    /\ request(c, "listTaskSubtasks", ToString(taskId),
               <<"/task/", ToString(taskId), "/subtasks">>, NoOptions)

downloadFile(c) ==
  \E fileUuid \in FileUuids :
    /\ CanInvoke(c)
    /\ wire' = Append(wire, Fetch(c, <<baseUrl, "/file/", fileUuid>>, {},
                                  DownloadHeaders(Value(client))))
    /\ calls' = [calls EXCEPT ![c] =
                   [@ EXCEPT !.op = "downloadFile", !.arg = fileUuid, !.pc = "fetch"]]
    /\ UNCHANGED <<client, ctorArgs, ctorError, tool, disk>>

\* An accessor that does ask the remote for the attachments of the task.
listTaskAttachmentsFetching(c) ==
  \E taskId \in TaskIds :
    /\ CanInvoke(c)
    /\ request(c, "listTaskAttachments", ToString(taskId),
               <<"/task/", ToString(taskId), "/attachments">>, NoOptions)

listTaskAttachments(c) ==
  \E taskId \in TaskIds :
    /\ CanInvoke(c)
    /\ calls' = [calls EXCEPT ![c] =
         [@ EXCEPT !.op = "listTaskAttachments", !.arg = ToString(taskId), !.pc = "done",
                   !.result = Thrown("Error",
                     <<"API does not support /task/{id}/attachments endpoint. ",
                       "Files are included in task comments. Use getTask() instead.">>)]]
    /\ UNCHANGED <<client, ctorArgs, ctorError, wire, tool, disk>>

getAttachment(c) ==
  \E attachmentId \in TaskIds :
    /\ CanInvoke(c)
    /\ calls' = [calls EXCEPT ![c] =
         [@ EXCEPT !.op = "getAttachment", !.arg = ToString(attachmentId), !.pc = "done",
                   !.result = Thrown("Error",
                     <<"API does not support /attachments/{id} endpoint. ",
                       "Files use UUIDs. Use downloadFile(uuid) instead.">>)]]
    /\ UNCHANGED <<client, ctorArgs, ctorError, wire, tool, disk>>

\* A response kept in one place shared by all calls: the one that arrived for
\* the latest invocation is the one every resumed call reads.
SharedResponse(c) ==
  LET arrived == {d \in CallIds : calls[d].response.kind # "none"}
  IN  calls[CHOOSE d \in arrived : \A e \in arrived : e <= d].response

\* The response a resumed call works on: its own local variable.
LocalResponse(c) == calls[c].response

\* What the accessor hands to its caller once its response is complete.
Outcome(op, response) ==
  CASE op = "downloadFile" -> DownloadOutcome(response)
    [] op = "listTaskSubtasks" -> Subtasks(RequestOutcome(response))
    [] OTHER -> RequestOutcome(response)

\* Whether the code goes on to read the body of the response.
ReadsBody(op, response) ==
  /\ response.kind = "http"
  /\ op = "downloadFile" => Ok(response)

\* The await of fetch() settles with one of the remote's answers.
FetchSettles(c, answers) ==
  \E response \in answers :
    /\ calls[c].pc = "fetch"
    /\ Serves(calls[c].op, response)
    /\ calls' = [calls EXCEPT ![c] =
         IF ReadsBody(calls[c].op, response)
         THEN [@ EXCEPT !.pc = "body", !.response = response]
         ELSE [@ EXCEPT !.pc = "done", !.response = response,
                        !.result = Outcome(calls[c].op, response)]]
    /\ UNCHANGED <<client, ctorArgs, ctorError, wire, tool, disk>>

\* A listing that goes on to ask for page 2 when the envelope reports more
\* items than it carries.
BodySettlesNextPage(c) ==
  /\ calls[c].pc = "body"
  /\ IF /\ calls[c].op = "listTaskSubtasks"
        /\ Ok(calls[c].response)
        /\ calls[c].response.body.type = "json"
        /\ "total" \in DOMAIN calls[c].response.body.value
        /\ calls[c].response.body.value.total > calls[c].response.body.value.count
        /\ Cardinality({i \in 1..Len(wire) : wire[i].call = c}) < 2
     THEN /\ wire' = Append(wire, [wire[Len(wire)] EXCEPT
                                     !.url = @ \o <<"?p=", "1">>])
          /\ calls' = [calls EXCEPT ![c] = [@ EXCEPT !.pc = "fetch"]]
     ELSE /\ wire' = wire
          /\ calls' = [calls EXCEPT ![c] =
               [@ EXCEPT !.pc = "done",
                         !.result = Outcome(calls[c].op, calls[c].response)]]
  /\ UNCHANGED <<client, ctorArgs, ctorError, tool, disk>>

\* The await of response.json() or response.arrayBuffer() settles.
BodySettles(c) ==
  /\ calls[c].pc = "body"
  /\ calls' = [calls EXCEPT ![c] =
       [@ EXCEPT !.pc = "done", !.result = Outcome(calls[c].op, LocalResponse(c))]]
  /\ UNCHANGED <<client, ctorArgs, ctorError, wire, tool, disk>>

(* ------------------- the executor with caller options ----------------- *)

\* Header overrides a caller of request() can pass in options.headers.
HeaderOverrides ==
  { {},
    {[h \in {"Accept"} |-> <<"application/json">>]},
    {[h \in {"Authorization"} |-> <<"Bearer caller-token">>]},
    {[h \in {"User-Agent"} |-> <<"caller-agent">>]},
    {[h \in {"Authorization", "X-Trace"} |-> <<"Basic ", "Zm9vOmJhcg==">>]} }

OptionSets == [method : {{}, {"GET"}, {"POST"}}, headers : HeaderOverrides]

Endpoints == { <<"/task/", "1">>, <<"/task/", "42", "/subtasks">> }

\* request(endpoint, options) called with options of the caller's choosing.
requestWithOptions(c) ==
  \E endpoint \in Endpoints, options \in OptionSets :
    /\ CanInvoke(c)
    /\ request(c, "request", "", endpoint, options)

(* --------------------------- specifications --------------------------- *)

\* One invocation of an accessor, over the full range of inputs and answers.
Next ==
  \/ FreeloApiClient(CredInputs)
  \/ createFreeloClient(CredInputs)
  \/ \E c \in {1} : getTask(c)
  \/ \E c \in {1} : listTaskSubtasks(c)
  \/ \E c \in {1} : downloadFile(c)
  \/ \E c \in {1} : listTaskAttachments(c)
  \/ \E c \in {1} : getAttachment(c)
  \/ \E c \in {1} : FetchSettles(c, Responses)
  \/ \E c \in {1} : BodySettles(c)

Spec == Init /\ [][Next]_vars

\* A few inputs and answers, enough to tell the calls apart.
FewInputs == { {}, {<<"a">>}, {<<"a", "~">>} }

FewResponses ==
  { NetworkFault,
    HttpResponse(200, "OK", JsonBody([id |-> 42, name |-> "X"])),
    HttpResponse(200, "OK", JsonBody(Envelope(<<[id |-> 1, name |-> "A"]>>))),
    HttpResponse(200, "OK", RawBody(<<0, 255>>)),
    HttpResponse(404, "Not Found",
                 JsonBody([error |-> "not_found", message |-> "Task not found"])),
    HttpResponse(500, "Internal Server Error", RawBody(<<0>>)) }

\* Up to MaxCalls invocations on one client, suspended and resumed in any order.
NextConcurrent ==
  \/ FreeloApiClient(FewInputs)
  \/ createFreeloClient(FewInputs)
  \/ \E c \in CallIds : getTask(c)
  \/ \E c \in CallIds : listTaskSubtasks(c)
  \/ \E c \in CallIds : downloadFile(c)
  \/ \E c \in CallIds : listTaskAttachments(c)
  \/ \E c \in CallIds : getAttachment(c)
  \/ \E c \in CallIds : FetchSettles(c, FewResponses)
  \/ \E c \in CallIds : BodySettles(c)

SpecConcurrent == Init /\ [][NextConcurrent]_vars

\* The executor on its own, called with options.
NextExecutor ==
  \/ FreeloApiClient(FewInputs)
  \/ createFreeloClient(FewInputs)
  \/ \E c \in {1} : requestWithOptions(c)
  \/ \E c \in {1} : FetchSettles(c, FewResponses)
  \/ \E c \in {1} : BodySettles(c)

SpecExecutor == Init /\ [][NextExecutor]_vars

(* ------------------------------ the tools ----------------------------- *)

\* What execute() gives its caller: a payload it returns or an Error it throws.
ToolReturned(payload) == [kind |-> "returned", payload |-> payload]
ToolThrown(message) == [kind |-> "thrown", name |-> "Error", message |-> message]

\* createFreeloClient() as a whole: its own checks, then the constructor's.
CreateError(email, apiKey) ==
  IF EnvironmentError(email, apiKey) # {}
  THEN EnvironmentError(email, apiKey)
  ELSE ConstructorError(email, apiKey)

\* The catch block of FreeloGetTask.execute.
GetTaskCatch(message) == ToolThrown(<<"Failed to fetch task: ">> \o message)

\* The catch block of FreeloListTaskSubtasks.execute and FreeloDownloadFile.execute.
FailureObject(message) == ToolReturned([success |-> FALSE, error |-> message])

UserRecord == [id |-> 9, fullname |-> "U", email |-> "u@example.com"]

\* Tasks as the remote sends them: with the nested records the tool reads,
\* with an assignee and a description as well, and without any of them.
ToolTasks ==
  { [id |-> 42, name |-> "X", priority_enum |-> "h", author |-> UserRecord,
     project |-> [id |-> 3, name |-> "P"], tasklist |-> [id |-> 4, name |-> "L"]],
    [id |-> 7, name |-> "Y", priority_enum |-> "x", description |-> "d",
     author |-> UserRecord, worker |-> UserRecord,
     project |-> [id |-> 3, name |-> "P"], tasklist |-> [id |-> 4, name |-> "L"]],
    [id |-> 42, name |-> "X"] }

ToolSubtask(id, state) ==
  [id |-> id, name |-> "S", state |-> [id |-> 1, state |-> state],
   count_comments |-> 0, count_subtasks |-> 0, author |-> UserRecord,
   project |-> [id |-> 3, name |-> "P"], tasklist |-> [id |-> 4, name |-> "L"]]

ToolSubtaskLists ==
  { <<>>,
    <<ToolSubtask(1, "finished"), ToolSubtask(2, "active")>>,
    <<ToolSubtask(1, "active"), ToolSubtask(2, "completed"), ToolSubtask(3, "finished")>>,
    <<[id |-> 1, name |-> "A"]>> }

ToolResponses ==
  {NetworkFault}
  \cup { HttpResponse(200, "OK", JsonBody(t)) : t \in ToolTasks }
  \cup { HttpResponse(200, "OK", JsonBody(Envelope(l))) : l \in ToolSubtaskLists }
  \cup { HttpResponse(200, "OK", b) : b \in RawBodies \cup {NullBody, AbortedBody} }
  \cup { HttpResponse(404, "Not Found",
                      JsonBody([error |-> "not_found", message |-> "Task not found"])),
         HttpResponse(500, "Internal Server Error", RawBody(<<0>>)) }

\* formatPriority(priority), priority being task.priority_enum or undefined
formatPriority(priority) ==
  IF priority = {"l"} THEN {"Low"}
  ELSE IF priority = {"m"} THEN {"Medium"}
  ELSE IF priority = {"h"} THEN {"High"}
  ELSE priority

\* { id: user.id, name: user.fullname }
PersonOf(user) == [id |-> Field(user, "id"), name |-> Field(user, "fullname")]

\* { id: x.id, name: x.name }
NamedOf(x) == [id |-> Field(x, "id"), name |-> Field(x, "name")]

\* The object FreeloGetTask.execute builds from the task (tasks here carry no
\* comments, tags or dates): a payload, or the TypeError of reading a field of
\* a nested record that is missing.
TaskPayload(result) ==
  IF result.kind = "null"
  THEN Thrown("TypeError", <<"Cannot read properties of null (reading 'id')">>)
  ELSE LET task == result.value
       IN  IF ~({"author", "project", "tasklist"} \subseteq DOMAIN task)
           THEN Thrown("TypeError", <<"Cannot read properties of undefined (reading 'id')">>)
           ELSE Returned(
                  [success |-> TRUE,
                   task |-> [id |-> Field(task, "id"),
                             name |-> Field(task, "name"),
                             description |-> IF Truthy(Field(task, "description"))
                                             THEN task.description
                                             ELSE "(no description)",
                             priority |-> formatPriority(Field(task, "priority_enum")),
                             author |-> PersonOf(task.author),
                             assignee |-> IF "worker" \in DOMAIN task
                                          THEN {PersonOf(task.worker)} ELSE {},
                             project |-> NamedOf(task.project),
                             taskList |-> NamedOf(task.tasklist),
                             comments |-> <<>>,
                             totalComments |-> 0]])

\* Whether subtasks.map(...) can read every nested record of the subtask.
Formattable(subtask) ==
  {"state", "author", "project", "tasklist"} \subseteq DOMAIN subtask

FormattedSubtask(subtask) ==
  [id |-> Field(subtask, "id"),
   name |-> Field(subtask, "name"),
   state |-> Field(subtask.state, "state"),
   commentsCount |-> Field(subtask, "count_comments"),
   subtasksCount |-> Field(subtask, "count_subtasks"),
   author |-> PersonOf(subtask.author),
   assignee |-> IF "worker" \in DOMAIN subtask THEN {PersonOf(subtask.worker)} ELSE {},
   project |-> NamedOf(subtask.project),
   taskList |-> NamedOf(subtask.tasklist)]

\* Math.round((completed / total) * 100), or 0 when there are no subtasks
CompletionPercentage(completed, total) ==
  IF total > 0 THEN (200 * completed + total) \div (2 * total) ELSE 0

\* The object FreeloListTaskSubtasks.execute builds from the subtasks.
SubtasksPayload(taskId, result) ==
  LET subtasks == result.value
  IN  IF \E i \in 1..Len(subtasks) : ~Formattable(subtasks[i])
      THEN Thrown("TypeError", <<"Cannot read properties of undefined (reading 'state')">>)
      ELSE LET formatted == [i \in 1..Len(subtasks) |-> FormattedSubtask(subtasks[i])]
               completed == Cardinality({i \in 1..Len(formatted) :
                              formatted[i].state \in {{"completed"}, {"finished"}}})
               total == Len(formatted)
           IN  Returned([success |-> TRUE,
                         taskId |-> taskId,
                         statistics |->
                           [total |-> total, completed |-> completed,
                            remaining |-> total - completed,
                            completionPercentage |->
                              CompletionPercentage(completed, total)],
                         subtasks |-> formatted])

\* A tool starts in a process where nothing has been constructed yet.
CanExecute == tool.pc = "idle" /\ client = {} /\ calls[1].pc = "idle"

\* FreeloGetTask.execute up to its await of client.getTask(input.taskId).
FreeloGetTaskExecute(inputs) ==
  /\ CanExecute
  /\ \E email \in inputs, apiKey \in inputs, taskId \in TaskIds :
       /\ ctorArgs' = {[email |-> email, apiKey |-> apiKey]}
       /\ ctorError' = CreateError(email, apiKey)
       /\ IF CreateError(email, apiKey) # {}
          THEN /\ client' = {}
               /\ tool' = [tool EXCEPT !.name = "freelo_get_task", !.arg = ToString(taskId),
                             !.pc = "done", !.steps = <<"createFreeloClient">>,
                             !.output = GetTaskCatch(Value(CreateError(email, apiKey)))]
               /\ UNCHANGED <<calls, wire>>
          ELSE /\ client' = {[email |-> Value(email), apiKey |-> Value(apiKey)]}
               /\ wire' = Append(wire,
                    Fetch(1, <<baseUrl, "/task/", ToString(taskId)>>, NoOptions.method,
                          RequestHeaders([email |-> Value(email), apiKey |-> Value(apiKey)],
                                         NoOptions)))
               /\ calls' = [calls EXCEPT ![1] =
                    [@ EXCEPT !.op = "getTask", !.arg = ToString(taskId), !.pc = "fetch"]]
               /\ tool' = [tool EXCEPT !.name = "freelo_get_task", !.arg = ToString(taskId),
                             !.pc = "core", !.steps = <<"createFreeloClient", "getTask">>]
       /\ UNCHANGED disk

\* FreeloGetTask.execute from the end of client.getTask to its own end.
FreeloGetTaskResume ==
  /\ tool.name = "freelo_get_task"
  /\ tool.pc = "core"
  /\ calls[1].pc = "done"
  /\ tool' = [tool EXCEPT !.pc = "done", !.output =
       IF calls[1].result.kind = "error" THEN GetTaskCatch(calls[1].result.message)
       ELSE IF TaskPayload(calls[1].result).kind = "error"
       THEN GetTaskCatch(TaskPayload(calls[1].result).message)
       ELSE ToolReturned(TaskPayload(calls[1].result).value)]
  /\ UNCHANGED <<client, ctorArgs, ctorError, calls, wire, disk>>

\* FreeloListTaskSubtasks.execute up to its await of client.listTaskSubtasks.
FreeloListTaskSubtasksExecute(inputs) ==
  /\ CanExecute
  /\ \E email \in inputs, apiKey \in inputs, taskId \in TaskIds :
       /\ ctorArgs' = {[email |-> email, apiKey |-> apiKey]}
       /\ ctorError' = CreateError(email, apiKey)
       /\ IF CreateError(email, apiKey) # {}
          THEN /\ client' = {}
               /\ tool' = [tool EXCEPT !.name = "freelo_list_task_subtasks",
                             !.arg = ToString(taskId),
                             !.pc = "done", !.steps = <<"createFreeloClient">>,
                             !.output = FailureObject(Value(CreateError(email, apiKey)))]
               /\ UNCHANGED <<calls, wire>>
          ELSE /\ client' = {[email |-> Value(email), apiKey |-> Value(apiKey)]}
               /\ wire' = Append(wire,
                    Fetch(1, <<baseUrl, "/task/", ToString(taskId), "/subtasks">>,
                          NoOptions.method,
                          RequestHeaders([email |-> Value(email), apiKey |-> Value(apiKey)],
                                         NoOptions)))
               /\ calls' = [calls EXCEPT ![1] =
                    [@ EXCEPT !.op = "listTaskSubtasks", !.arg = ToString(taskId),
                              !.pc = "fetch"]]
               /\ tool' = [tool EXCEPT !.name = "freelo_list_task_subtasks",
                             !.arg = ToString(taskId), !.pc = "core",
                             !.steps = <<"createFreeloClient", "listTaskSubtasks">>]
       /\ UNCHANGED disk

\* FreeloListTaskSubtasks.execute from the end of listTaskSubtasks to its end.
FreeloListTaskSubtasksResume ==
  /\ tool.name = "freelo_list_task_subtasks"
  /\ tool.pc = "core"
  /\ calls[1].pc = "done"
  /\ tool' = [tool EXCEPT !.pc = "done", !.output =
       IF calls[1].result.kind = "error" THEN FailureObject(calls[1].result.message)
       ELSE IF SubtasksPayload(tool.arg, calls[1].result).kind = "error"
       THEN FailureObject(SubtasksPayload(tool.arg, calls[1].result).message)
       ELSE ToolReturned(SubtasksPayload(tool.arg, calls[1].result).value)]
  /\ UNCHANGED <<client, ctorArgs, ctorError, calls, wire, disk>>

(* -------------------------- the download tool ------------------------- *)

SanitizeLimit == 200

\* The characters of the class [a-zA-Z0-9._-].
AllowedChars ==
  { "a","b","c","d","e","f","g","h","i","j","k","l","m","n","o","p","q","r","s",
    "t","u","v","w","x","y","z","A","B","C","D","E","F","G","H","I","J","K","L",
    "M","N","O","P","Q","R","S","T","U","V","W","X","Y","Z","0","1","2","3","4",
    "5","6","7","8","9",".","_","-" }

\* .replace(/[^a-zA-Z0-9._-]/g, "_")
ReplaceForbidden(s) ==
  [i \in 1..Len(s) |-> IF s[i] \in AllowedChars THEN s[i] ELSE "_"]

\* .replace(/_{2,}/g, "_"): of every run of underscores the first one stays.
\* The text from lo to hi is done in two halves, each character being kept or
\* dropped by looking at the one before it.
RECURSIVE Collapse(_, _, _)
Collapse(s, lo, hi) ==
  IF lo > hi THEN <<>>
  ELSE IF lo = hi
  THEN IF lo > 1 /\ s[lo] = "_" /\ s[lo - 1] = "_" THEN <<>> ELSE <<s[lo]>>
  ELSE Collapse(s, lo, (lo + hi) \div 2) \o Collapse(s, ((lo + hi) \div 2) + 1, hi)

\* .substring(0, n)
Substring(s, n) == SubSeq(s, 1, IF Len(s) < n THEN Len(s) ELSE n)

\* A sanitizer whose second replace is missing: runs of underscores stay.
sanitizeFilenameNoCollapse(filename) ==
  Substring(ReplaceForbidden(filename), SanitizeLimit)

\* FreeloDownloadFile.sanitizeFilename
sanitizeFilename(filename) ==
  Substring(Collapse(ReplaceForbidden(filename), 1, Len(filename)), SanitizeLimit)

\* The position of the k-th "/" of a path text; 0 and Len + 1 bound the text.
SeparatorAt(text, k) ==
  LET seps == {i \in 1..Len(text) : text[i] = "/"}
  IN  IF k = 0 THEN 0
      ELSE IF k > Cardinality(seps) THEN Len(text) + 1
      ELSE CHOOSE i \in seps : Cardinality({j \in seps : j <= i}) = k

\* The segments of a path text: what stands between its "/" characters.
Segments(text) ==
  [k \in 1..(Cardinality({i \in 1..Len(text) : text[i] = "/"}) + 1) |->
     SubSeq(text, SeparatorAt(text, k - 1) + 1, SeparatorAt(text, k) - 1)]

\* path.normalize on segments: "" and "." are dropped, ".." takes one back.
RECURSIVE Normalize(_, _)
Normalize(done, rest) ==
  IF rest = <<>> THEN done
  ELSE IF Head(rest) = <<>> \/ Head(rest) = <<".">> THEN Normalize(done, Tail(rest))
  ELSE IF Head(rest) = <<".", ".">>
  THEN Normalize(IF done = <<>> THEN done ELSE SubSeq(done, 1, Len(done) - 1), Tail(rest))
  ELSE Normalize(Append(done, Head(rest)), Tail(rest))

\* path.join(dir, name) for an absolute dir: the segments of the result.
PathJoin(dir, name) == Normalize(<<>>, dir \o Segments(name))

\* path.join(os.tmpdir(), "freelo-files"), os.tmpdir() being /tmp
TempDir == PathJoin(<<<<"tmp">>>>, <<"freelo-files">>)

\* Date.now()
Timestamps == {"1730473200000", "1730473200001"}

\* formatFileSize(bytes), for the sizes below 1024 that occur here (i = 0).
formatFileSize(bytes) ==
  IF bytes = 0 THEN <<"0 Bytes">> ELSE <<ToString(bytes), " ", "Bytes">>

\* FreeloDownloadFile.execute up to its await of fs.mkdir.
FreeloDownloadFileExecute(inputs, filenames) ==
  /\ CanExecute
  /\ \E email \in inputs, apiKey \in inputs, fileUuid \in FileUuids, filename \in filenames :
       /\ ctorArgs' = {[email |-> email, apiKey |-> apiKey]}
       /\ ctorError' = CreateError(email, apiKey)
       /\ client' = IF CreateError(email, apiKey) # {} THEN {}
                    ELSE {[email |-> Value(email), apiKey |-> Value(apiKey)]}
       /\ tool' = IF CreateError(email, apiKey) # {}
                  THEN [tool EXCEPT !.name = "freelo_download_file", !.arg = fileUuid,
                          !.filename = filename, !.pc = "done",
                          !.steps = <<"createFreeloClient">>,
                          !.output = FailureObject(Value(CreateError(email, apiKey)))]
                  ELSE [tool EXCEPT !.name = "freelo_download_file", !.arg = fileUuid,
                          !.filename = filename, !.pc = "mkdir",
                          !.steps = <<"createFreeloClient", "mkdir">>]
       /\ UNCHANGED <<calls, wire, disk>>

\* A tool that opens the target file before it asks for the bytes.
MkdirSettlesCreatingFile ==
  \E ok \in BOOLEAN, timestamp \in Timestamps :
    /\ tool.pc = "mkdir"
    /\ IF ~ok
       THEN /\ tool' = [tool EXCEPT !.pc = "done", !.output =
                  FailureObject(<<"EACCES: permission denied, mkdir '/tmp/freelo-files'">>)]
            /\ UNCHANGED <<calls, wire, disk>>
       ELSE LET saveAs == IF Falsy(tool.filename) THEN <<tool.arg>>
                          ELSE sanitizeFilename(Value(tool.filename))
                filePath == PathJoin(TempDir, <<timestamp, "-">> \o saveAs)
            IN  /\ disk' = [dirs |-> disk.dirs \cup {TempDir},
                            files |-> disk.files \cup {[path |-> filePath, bytes |-> <<>>]}]
                /\ wire' = Append(wire, Fetch(1, <<baseUrl, "/file/", tool.arg>>, {},
                                              DownloadHeaders(Value(client))))
                /\ calls' = [calls EXCEPT ![1] =
                     [@ EXCEPT !.op = "downloadFile", !.arg = tool.arg, !.pc = "fetch"]]
                /\ tool' = [tool EXCEPT !.pc = "core", !.saveAs = saveAs,
                              !.filePath = filePath,
                              !.steps = tool.steps \o <<"writeFile", "downloadFile">>]
    /\ UNCHANGED <<client, ctorArgs, ctorError>>

\* fs.mkdir settles; on success the name and the path are computed and
\* client.downloadFile(input.fileUuid) runs up to its await of fetch.
MkdirSettles ==
  \E ok \in BOOLEAN, timestamp \in Timestamps :
    /\ tool.pc = "mkdir"
    /\ IF ~ok
       THEN /\ tool' = [tool EXCEPT !.pc = "done", !.output =
                  FailureObject(<<"EACCES: permission denied, mkdir '/tmp/freelo-files'">>)]
            /\ UNCHANGED <<calls, wire, disk>>
       ELSE LET saveAs == IF Falsy(tool.filename) THEN <<tool.arg>>
                          ELSE sanitizeFilename(Value(tool.filename))
                filePath == PathJoin(TempDir, <<timestamp, "-">> \o saveAs)
            IN  /\ disk' = [disk EXCEPT !.dirs = @ \cup {TempDir}]
                /\ wire' = Append(wire, Fetch(1, <<baseUrl, "/file/", tool.arg>>, {},
                                              DownloadHeaders(Value(client))))
                /\ calls' = [calls EXCEPT ![1] =
                     [@ EXCEPT !.op = "downloadFile", !.arg = tool.arg, !.pc = "fetch"]]
                /\ tool' = [tool EXCEPT !.pc = "core", !.saveAs = saveAs,
                              !.filePath = filePath,
                              !.steps = Append(tool.steps, "downloadFile")]
    /\ UNCHANGED <<client, ctorArgs, ctorError>>

\* FreeloDownloadFile.execute from the end of client.downloadFile to its
\* await of fs.writeFile.
FreeloDownloadFileResume ==
  /\ tool.name = "freelo_download_file"
  /\ tool.pc = "core"
  /\ calls[1].pc = "done"
  /\ tool' = IF calls[1].result.kind = "error"
             THEN [tool EXCEPT !.pc = "done",
                     !.output = FailureObject(calls[1].result.message)]
             ELSE [tool EXCEPT !.pc = "writeFile",
                     !.steps = Append(tool.steps, "writeFile")]
  /\ UNCHANGED <<client, ctorArgs, ctorError, calls, wire, disk>>

\* fs.writeFile settles: the bytes are in the file, or the write failed.
WriteFileSettles ==
  \E ok \in BOOLEAN :
    /\ tool.pc = "writeFile"
    /\ IF ok
       THEN /\ disk' = [disk EXCEPT !.files =
                  {f \in @ : f.path # tool.filePath}
                  \cup {[path |-> tool.filePath, bytes |-> calls[1].result.value]}]
            /\ tool' = [tool EXCEPT !.pc = "stat", !.steps = Append(tool.steps, "stat")]
       ELSE /\ disk' = disk
            /\ tool' = [tool EXCEPT !.pc = "done", !.output =
                  FailureObject(<<"ENOSPC: no space left on device, write">>)]
    /\ UNCHANGED <<client, ctorArgs, ctorError, calls, wire>>

\* fs.stat settles, and execute returns its payload.
StatSettles ==
  \E ok \in BOOLEAN :
    /\ tool.pc = "stat"
    /\ tool' = [tool EXCEPT !.pc = "done", !.output =
         IF ok
         THEN LET size == Len((CHOOSE f \in disk.files : f.path = tool.filePath).bytes)
              IN  ToolReturned(
                    [success |-> TRUE,
                     file |-> [uuid |-> tool.arg, filename |-> tool.saveAs,
                               filePath |-> tool.filePath, size |-> size,
                               sizeFormatted |-> formatFileSize(size)],
                     message |-> <<"File successfully downloaded to: ", tool.filePath>>])
         ELSE FailureObject(<<"ENOENT: no such file or directory, stat">>)]
    /\ UNCHANGED <<client, ctorArgs, ctorError, calls, wire, disk>>

(* ----------------------- specifications of the tools ------------------ *)

\* The temporary directory may be there from an earlier download.
InitTools ==
  /\ client = {}
  /\ ctorArgs = {}
  /\ ctorError = {}
  /\ calls = [c \in CallIds |-> IdleCall]
  /\ wire = <<>>
  /\ tool = IdleTool
  /\ disk \in {EmptyDisk, [dirs |-> {TempDir}, files |-> {}]}

\* input.filename: undefined, "", or a name.
FewFilenames ==
  { {}, {<<>>}, {<<"a", ".", "t", "x", "t">>}, {<<".", ".", "/", "x">>} }

\* One execute() of one of the three tools.
NextTools ==
  \/ FreeloGetTaskExecute(FewInputs)
  \/ FreeloGetTaskResume
  \/ FreeloListTaskSubtasksExecute(FewInputs)
  \/ FreeloListTaskSubtasksResume
  \/ FreeloDownloadFileExecute(FewInputs, FewFilenames)
  \/ MkdirSettles
  \/ FreeloDownloadFileResume
  \/ WriteFileSettles
  \/ StatSettles
  \/ \E c \in {1} : FetchSettles(c, ToolResponses)
  \/ \E c \in {1} : BodySettles(c)

SpecTools == InitTools /\ [][NextTools]_vars

NameChars == {"a", "_", ".", "-", "/", " "}

\* The text s written n times over.
Repeat(s, n) == [i \in 1..(n * Len(s)) |-> s[((i - 1) % Len(s)) + 1]]

\* Names longer than the limit, before or after the replacements.
LongNames ==
  { Repeat(<<"a">>, 201),
    Repeat(<<"/">>, 250),
    Repeat(<<"a", "/", "/">>, 100),
    Repeat(<<"/", "a">>, 150),
    Repeat(<<"a">>, 199) \o <<"/", "\\", "b">>,
    Repeat(<<"a">>, 199) \o <<"_", "_">> }

Filenames ==
  {{}} \cup { {s} : s \in SeqsUpTo(NameChars, MaxNameLen) \cup LongNames
                          \cup { <<"a", "\\", "b">>, <<".", ".", "\\", ".", ".">> } }

OneInput == { {}, {<<"a">>} }

\* One execute() of the download tool, over the names a caller can give.
NextFilename ==
  \/ FreeloDownloadFileExecute(OneInput, Filenames)
  \/ MkdirSettles
  \/ FreeloDownloadFileResume
  \/ WriteFileSettles
  \/ StatSettles
  \/ \E c \in {1} : FetchSettles(c, FewResponses)
  \/ \E c \in {1} : BodySettles(c)

SpecFilename == InitTools /\ [][NextFilename]_vars

(* ------------------------------- claims ------------------------------- *)

Done(c) == calls[c].pc = "done"

NonEmptyString(v) == v # {} /\ Len(Value(v)) > 0

\* C1: construction from (identity, secret), directly or from the environment,
\* succeeds exactly when both are non-empty strings; when either is empty or
\* absent it fails with an error, there is no client, and nothing has been
\* handed to the network.
ConstructionContract ==
  \A a \in ctorArgs :
    IF NonEmptyString(a.email) /\ NonEmptyString(a.apiKey)
    THEN /\ client = {[email |-> Value(a.email), apiKey |-> Value(a.apiKey)]}
         /\ ctorError = {}
    ELSE /\ client = {}
         /\ ctorError # {}
         /\ wire = <<>>

\* C1 witness: a construction with identity "a" and secret "" has failed.
ConstructionRejected ==
  /\ ctorArgs = {[email |-> {<<"a">>}, apiKey |-> {<<>>}]}
  /\ ctorError # {}
  /\ client = {}

\* The value 0..63 of a base64 character ("=" counts as 0).
Base64Value(ch) ==
  IF ch = "=" THEN 0 ELSE (CHOOSE k \in 1..64 : Base64Alphabet[k] = ch) - 1

\* RFC 4648 decoding of a padded base64 text.
RECURSIVE Base64Decode(_)
Base64Decode(text) ==
  IF Len(text) < 4 THEN <<>>
  ELSE LET t == Base64Value(text[1]) * 262144 + Base64Value(text[2]) * 4096
                + Base64Value(text[3]) * 64 + Base64Value(text[4])
           three == << t \div 65536, (t \div 256) % 256, t % 256 >>
           n == IF text[3] = "=" THEN 1 ELSE IF text[4] = "=" THEN 2 ELSE 3
       IN  SubSeq(three, 1, n) \o Base64Decode(SubSeq(text, 5, Len(text)))

\* The bytes of `identity:secret` for the client's credentials.
IdentitySecretBytes ==
  LET cl == Value(client)
      text == cl.email \o <<":">> \o cl.apiKey
  IN  [i \in 1..Len(text) |-> CharCode(text[i])]

\* C2: every request an accessor puts on the wire, whatever its path, carries
\* Authorization = "Basic " followed by the base64 text of identity:secret:
\* a padded text of 4*ceil(n/3) characters that decodes to those bytes.
AuthorizationHeader ==
  \A i \in 1..Len(wire) :
    /\ "Authorization" \in DOMAIN wire[i].headers
    /\ LET h == wire[i].headers["Authorization"]
       IN  /\ Head(h) = "Basic "
           /\ Len(Tail(h)) = 4 * ((Len(IdentitySecretBytes) + 2) \div 3)
           /\ \A k \in 1..Len(Tail(h)) :
                Tail(h)[k] = "=" => k > Len(Tail(h)) - 2
           /\ Base64Decode(Tail(h)) = IdentitySecretBytes

\* C2 witness: a download request is on the wire with a padded header.
PaddedHeaderOnDownload ==
  /\ Len(wire) = 1
  /\ wire[1].url[2] = "/file/"
  /\ wire[1].headers["Authorization"][Len(wire[1].headers["Authorization"])] = "="

\* C3: whatever override headers the executor is given, the Authorization
\* header it sends is the one computed from the credentials.
AuthorizationNotOverridable ==
  \A i \in 1..Len(wire) :
    wire[i].headers["Authorization"] = <<"Basic ">> \o Credentials(Value(client))

RequestBased(c) == calls[c].op \in {"getTask", "listTaskSubtasks"}

\* The message the executor's contract gives for a response that is not ok.
ContractMessage(response) ==
  LET body == response.body
      has(f) == /\ body.type = "json"
                /\ f \in DOMAIN body.value
                /\ body.value[f] # ""
  IN  IF has("message") THEN <<"Freelo API error: ", body.value.message>>
      ELSE IF has("error") THEN <<"Freelo API error: ", body.value.error>>
      ELSE <<"Freelo API error: ", "API request failed: ", ToString(response.status),
             " ", response.statusText>>

\* C4: getTask and listTaskSubtasks, on a status outside the success range,
\* end with one Error whose message is "Freelo API error: " followed by the
\* body's message field if present and non-empty, else its error field if
\* present and non-empty, else (also for a body that is not JSON or is absent)
\* "API request failed: <status> <statusText>".
RemoteErrorMessage ==
  \A c \in CallIds :
    (/\ Done(c)
     /\ RequestBased(c)
     /\ calls[c].response.kind = "http"
     /\ ~(calls[c].response.status \in 200..299))
    => /\ calls[c].result.kind = "error"
       /\ calls[c].result.name = "Error"
       /\ calls[c].result.message = ContractMessage(calls[c].response)

\* C4 witness: getTask ended on 404 {"error":"not_found","message":"Task not
\* found"} with the message "Freelo API error: Task not found".
TaskNotFoundRaised ==
  \E c \in CallIds :
    /\ Done(c)
    /\ calls[c].op = "getTask"
    /\ calls[c].response.kind = "http"
    /\ calls[c].response.status = 404
    /\ calls[c].response.body = JsonBody([error |-> "not_found", message |-> "Task not found"])
    /\ calls[c].result.message = <<"Freelo API error: ", "Task not found">>

\* C5: a call of getTask, listTaskSubtasks or downloadFile whose fetch failed
\* at the network level ends with an error whose message starts with the
\* prefix "Freelo API error: ".
TransportFaultWrapped ==
  \A c \in CallIds :
    (Done(c) /\ calls[c].response.kind = "fault")
    => /\ calls[c].result.kind = "error"
       /\ Head(calls[c].result.message) = "Freelo API error: "

IsEnvelope(body) ==
  /\ body.type = "json"
  /\ {"total", "count", "page", "per_page", "data"} \subseteq DOMAIN body.value

\* C6: for a success response whose body is a paginated envelope,
\* listTaskSubtasks returns the envelope's data.subtasks: the same length and
\* the same element at every position.
SubtasksUnwrapped ==
  \A c \in CallIds :
    (/\ Done(c)
     /\ calls[c].op = "listTaskSubtasks"
     /\ calls[c].response.kind = "http"
     /\ calls[c].response.status \in 200..299
     /\ IsEnvelope(calls[c].response.body))
    => /\ calls[c].result.kind = "value"
       /\ LET got == calls[c].result.value
              sent == calls[c].response.body.value.data.subtasks
          IN  /\ Len(got) = Len(sent)
              /\ \A i \in 1..Len(sent) : got[i] = sent[i]

\* C6 witness: the envelope {total:5, count:2, page:1, per_page:2,
\* data:{subtasks:[B, A]}} came back as [B, A].
TwoSubtasksReturned ==
  \E c \in CallIds :
    /\ Done(c)
    /\ calls[c].op = "listTaskSubtasks"
    /\ calls[c].response.kind = "http"
    /\ calls[c].response.status = 200
    /\ calls[c].response.body =
         JsonBody(Envelope(<<[id |-> 2, name |-> "B"], [id |-> 1, name |-> "A"]>>))
    /\ calls[c].result = Returned(<<[id |-> 2, name |-> "B"], [id |-> 1, name |-> "A"]>>)

\* C7: for a success response with a JSON body, getTask returns the parsed
\* body: for an object the same set of fields, each with the value the body
\* has, and for null, null.
TaskReturnedAsIs ==
  \A c \in CallIds :
    (/\ Done(c)
     /\ calls[c].op = "getTask"
     /\ calls[c].response.kind = "http"
     /\ calls[c].response.status \in 200..299)
    => /\ calls[c].response.body.type = "json"
          => /\ calls[c].result.kind = "value"
             /\ DOMAIN calls[c].result.value = DOMAIN calls[c].response.body.value
             /\ \A f \in DOMAIN calls[c].response.body.value :
                  calls[c].result.value[f] = calls[c].response.body.value[f]
       /\ calls[c].response.body.type = "null" => calls[c].result.kind = "null"

\* C7 witness: getTask returned a task that has a description, with it.
TaskWithDescriptionReturned ==
  \E c \in CallIds :
    /\ Done(c)
    /\ calls[c].op = "getTask"
    /\ calls[c].result.kind = "value"
    /\ "description" \in DOMAIN calls[c].response.body.value
    /\ calls[c].result.value.id = 7
    /\ calls[c].result.value.name = "Y"

Unsupported(c) == calls[c].op \in {"listTaskAttachments", "getAttachment"}

\* C8: a call of listTaskAttachments or getAttachment is over at once with an
\* Error whose message ends by naming the supported alternative, and no
\* request of that call has been handed to the network.
UnsupportedOperations ==
  \A c \in CallIds :
    Unsupported(c)
    => /\ Done(c)
       /\ calls[c].result.kind = "error"
       /\ calls[c].result.message[Len(calls[c].result.message)] \in
            { "Files are included in task comments. Use getTask() instead.",
              "Files use UUIDs. Use downloadFile(uuid) instead." }
       /\ \A i \in 1..Len(wire) : wire[i].call # c

\* C8 witness: listTaskAttachments has been called, and the wire is empty.
AttachmentListingRefused ==
  \E c \in CallIds :
    /\ calls[c].op = "listTaskAttachments"
    /\ Done(c)
    /\ wire = <<>>

\* C9: for a success response, downloadFile returns the bytes of the body:
\* the same length and the same byte at every position.
DownloadedBytes ==
  \A c \in CallIds :
    (/\ Done(c)
     /\ calls[c].op = "downloadFile"
     /\ calls[c].response.kind = "http"
     /\ calls[c].response.status \in 200..299
     /\ calls[c].response.body.type = "raw")
    => /\ calls[c].result.kind = "value"
       /\ Len(calls[c].result.value) = Len(calls[c].response.body.bytes)
       /\ \A i \in 1..Len(calls[c].response.body.bytes) :
            calls[c].result.value[i] = calls[c].response.body.bytes[i]

\* C9 witness: the two bytes 0x00 0xFF were downloaded and returned.
BinaryBytesReturned ==
  \E c \in CallIds :
    /\ Done(c)
    /\ calls[c].op = "downloadFile"
    /\ calls[c].response.kind = "http"
    /\ calls[c].response.body = RawBody(<<0, 255>>)
    /\ calls[c].result = Returned(<<0, 255>>)

\* The path an accessor asks for.
PathOf(c) ==
  CASE calls[c].op = "getTask" -> <<"/task/", calls[c].arg>>
    [] calls[c].op = "listTaskSubtasks" -> <<"/task/", calls[c].arg, "/subtasks">>
    [] calls[c].op = "downloadFile" -> <<"/file/", calls[c].arg>>

\* Each finished call holds what its own response determines, and each
\* request on the wire is the one of the call that sent it.
OwnOutcome ==
  /\ \A c \in CallIds :
       (Done(c) /\ ~Unsupported(c)) => calls[c].result = Outcome(calls[c].op, calls[c].response)
  /\ \A i \in 1..Len(wire) :
       wire[i].url = <<"https://api.freelo.io/v1">> \o PathOf(wire[i].call)

\* C10: with several calls in flight on one client, dispatched and answered
\* in any order, every call ends with the result or failure that the response
\* to its own request determines, and the client's credential pair never
\* changes once it is constructed.
NoInterference ==
  /\ []OwnOutcome
  /\ [][client # {} => client' = client]_vars

\* C10 witness: the second call is over with the task it asked for while the
\* first, dispatched before it, still waits for its response.
SecondAnsweredFirst ==
  /\ MaxCalls >= 2
  /\ calls[1].pc = "fetch"
  /\ calls[1].op = "listTaskSubtasks"
  /\ calls[2].pc = "done"
  /\ calls[2].op = "getTask"
  /\ calls[2].result = Returned([id |-> 42, name |-> "X"])

NetworkAccessor(c) == calls[c].op \in {"getTask", "listTaskSubtasks", "downloadFile"}

\* The requests on the wire that call c issued.
RequestsOf(c) == {i \in 1..Len(wire) : wire[i].call = c}

\* C11: a call of getTask, listTaskSubtasks or downloadFile has, from its
\* dispatch to its end and after it, exactly one request on the wire: a GET
\* to the base address followed by the accessor's path.  It is still the only
\* one once the call has failed (no retry) and once a listing has returned an
\* envelope that reports more items than it carries (no further page).
OneGetPerCall ==
  \A c \in CallIds :
    NetworkAccessor(c)
    => /\ Cardinality(RequestsOf(c)) = 1
       /\ \A i \in RequestsOf(c) :
            /\ wire[i].method = "GET"
            /\ wire[i].url = <<"https://api.freelo.io/v1">> \o PathOf(c)

\* C11 witness: a listing ended with the two subtasks of an envelope whose
\* total is 5, and one request is on the wire.
FirstPageOnly ==
  \E c \in CallIds :
    /\ Done(c)
    /\ calls[c].op = "listTaskSubtasks"
    /\ calls[c].result.kind = "value"
    /\ Len(calls[c].result.value) = 2
    /\ calls[c].response.body.value.total = 5
    /\ Len(wire) = 1

\* The message of the error the core raised during execute, if it raised one:
\* at construction, or at the end of the accessor.
CoreFailure ==
  IF ctorError # {} THEN ctorError
  ELSE IF calls[1].pc = "done" /\ calls[1].result.kind = "error"
  THEN {calls[1].result.message}
  ELSE {}

\* C12: when execute of freelo_get_task, freelo_list_task_subtasks or
\* freelo_download_file is over, it has returned an object and thrown
\* nothing, and if the core raised a failure (configuration, remote or
\* transport) the object is { success: false, error } with the message of
\* that failure.
ToolFailureStructured ==
  tool.pc = "done"
  => /\ tool.output.kind = "returned"
     /\ CoreFailure # {}
        => /\ tool.output.payload.success = FALSE
           /\ tool.output.payload.error = Value(CoreFailure)

DownloadTool == tool.name = "freelo_download_file"

DownloadSteps == <<"createFreeloClient", "mkdir", "downloadFile", "writeFile", "stat">>

\* C13: execute of freelo_download_file takes its steps in the order client
\* creation, directory creation, download, file write, stat; a file is on
\* disk only once downloadFile has returned its bytes, and it holds those
\* bytes; and when client creation or the download failed, execute ends with
\* { success: false, error } and no file on disk.
DownloadStepOrder ==
  DownloadTool
  => /\ Len(tool.steps) <= Len(DownloadSteps)
     /\ tool.steps = SubSeq(DownloadSteps, 1, Len(tool.steps))
     /\ \A f \in disk.files :
          /\ calls[1].pc = "done"
          /\ calls[1].result.kind = "value"
          /\ f.path = tool.filePath
          /\ f.bytes = calls[1].result.value
     /\ (tool.pc = "done" /\ CoreFailure # {})
        => /\ disk.files = {}
           /\ tool.output.kind = "returned"
           /\ tool.output.payload.success = FALSE
           /\ tool.output.payload.error = Value(CoreFailure)

\* C13 witness: the bytes 0x00 0xFF were downloaded, then written, then
\* stat'ed, and execute returned success.
FileWrittenAfterDownload ==
  /\ DownloadTool
  /\ tool.pc = "done"
  /\ tool.steps = DownloadSteps
  /\ calls[1].result = Returned(<<0, 255>>)
  /\ disk.files = {[path |-> tool.filePath, bytes |-> <<0, 255>>]}
  /\ tool.output.payload.success = TRUE
  /\ tool.output.payload.file.size = 2

\* The download tool has computed the name to save under from a filename
\* the caller supplied.
NameSanitized ==
  /\ DownloadTool
  /\ Len(tool.steps) >= 3
  /\ ~(tool.filename = {} \/ tool.filename = {<<>>})

\* C14: the name computed from a caller-supplied filename has at most 200
\* characters, all of them in [a-zA-Z0-9._-], no two consecutive underscores
\* and no path separator; the path written to is the temp directory
\* /tmp/freelo-files followed by the single segment <timestamp>-<name>; and
\* sanitizeFilename applied to the name gives the name back.
SanitizedFilename ==
  NameSanitized
  => LET name == tool.saveAs
     IN  /\ name = sanitizeFilename(Value(tool.filename))
         /\ Len(name) <= 200
         /\ \A i \in 1..Len(name) :
              /\ name[i] \in AllowedChars
              /\ name[i] \notin {"/", "\\"}
              /\ i > 1 => ~(name[i] = "_" /\ name[i - 1] = "_")
         /\ Len(tool.filePath) = 3
         /\ SubSeq(tool.filePath, 1, 2) = << <<"tmp">>, <<"freelo-files">> >>
         /\ \E timestamp \in Timestamps :
              tool.filePath[3] = <<timestamp, "-">> \o name
         /\ \A f \in disk.files : f.path = tool.filePath
         /\ sanitizeFilename(name) = name

\* C14 witness: the filename "../" was given, the file is saved under "..",
\* "_" joined to the timestamp, inside the temp directory.
TraversalNameSanitized ==
  /\ DownloadTool
  /\ tool.filename = {<<".", ".", "/">>}
  /\ tool.saveAs = <<".", ".", "_">>
  /\ disk.files # {}
  /\ \A f \in disk.files : Len(f.path) = 3
====
